---- MODULE Spec2Model ----
(***************************************************************************)
(* A model of src/src/utils.ts: the template field matcher                 *)
(* (checkFieldInTemplate), the trigger gate (shouldUpdate) and the deep    *)
(* values engine (the watch callback of useDeepValues) with its two caches *)
(* and its suspension points at the two remote reads.                      *)
(*                                                                         *)
(* JSON values are tagged records [t |-> tag, v |-> payload]:              *)
(*   null, undef, num (a number), str (a string), obj (a JS object, a      *)
(*   function from property names to payloads), arr (a JS array, a         *)
(*   sequence).  A mutation set {create, update, delete} is an obj.        *)
(***************************************************************************)
EXTENDS Integers, Sequences, FiniteSets, TLC

VARIABLES
    values,       \* values.value: the edited record handed in by the form
    finalValues,  \* finalValues.value: the ResolvedRecord
    fieldCache,   \* let fieldCache
    itemCache,    \* let itemCache
    passes,       \* the invocations of the watch callback suspended at an await
    nEdits,       \* how many times the watcher has fired after the immediate run
    nRejects,     \* how many remote reads have failed
    ev,           \* what the last step did (history, read by the properties only)
    template,     \* the template argument of useDeepValues
    pk,           \* pk.value
    form,         \* the form that owns values
    probe         \* a direct call of an exported function: its arguments and result

vars == <<values, finalValues, fieldCache, itemCache, passes, nEdits, nRejects, ev, template, pk, form,
          probe>>

\* ------------------------------------------------------------------ bounds
MaxEdits == 2
MaxInFlight == 2
MaxRejects == 1

\* ------------------------------------------------------------------ values
Null == [t |-> "null"]
Undef == [t |-> "undef"]
Num(n) == [t |-> "num", v |-> n]
Str(s) == [t |-> "str", v |-> s]
Obj(f) == [t |-> "obj", v |-> f]
Arr(a) == [t |-> "arr", v |-> a]

EmptyObj == <<>>

\* obj[k], undefined when the key is absent
Get(obj, k) == IF k \in DOMAIN obj THEN obj[k] ELSE Undef

\* typeof x === 'number' || typeof x === 'string'
IsScalar(x) == x.t \in {"num", "str"}

\* typeof x === 'object' (null, arrays and objects)
IsTypeofObject(x) == x.t \in {"null", "obj", "arr"}

\* x instanceof Array
IsArray(x) == x.t = "arr"

\* { ...a, ...b }
Spread(a, b) == [k \in DOMAIN a \cup DOMAIN b |-> IF k \in DOMAIN b THEN b[k] ELSE a[k]]

\* ------------------------------------------------- Template Field Matcher
\* A template and a field name are sequences of one-character strings.
RECURSIVE FindOpen(_, _)
FindOpen(T, i) ==
    IF i + 1 > Len(T) THEN 0
    ELSE IF T[i] = "{" /\ T[i + 1] = "{" THEN i
    ELSE FindOpen(T, i + 1)

\* the characters . does not match
LineTerminators == {"\n", "\r"}

\* .*?}} from position i: the first }} with no line terminator before it
RECURSIVE FindClose(_, _)
FindClose(T, i) ==
    IF i + 1 > Len(T) THEN 0
    ELSE IF T[i] = "}" /\ T[i + 1] = "}" THEN i
    ELSE IF T[i] \in LineTerminators THEN 0
    ELSE FindClose(T, i + 1)

\* template.match(/{{.*?}}/g) || [], scanning from position i: a {{ that
\* cannot be closed is passed over and the scan goes on behind it
RECURSIVE Matches(_, _)
Matches(T, i) ==
    LET j == FindOpen(T, i) IN
    IF j = 0 THEN <<>>
    ELSE LET e == FindClose(T, j + 2) IN
         IF e = 0 THEN Matches(T, j + 1)
         ELSE <<SubSeq(T, j, e + 1)>> \o Matches(T, e + 2)

\* m.includes(field)
Includes(m, f) == \E s \in 1..(Len(m) - Len(f) + 1) : SubSeq(m, s, s + Len(f) - 1) = f

\* line 8 comparing the placeholder's content with the field instead of m.includes
checkFieldExact(T, f) ==
    LET ms == Matches(T, 1) IN \E x \in 1..Len(ms) : ms[x] = <<"{", "{">> \o f \o <<"}", "}">>

checkFieldInTemplate(T, f) ==
    LET ms == Matches(T, 1) IN \E x \in 1..Len(ms) : Includes(ms[x], f)

\* the characters of a record key
KeyChars(k) ==
    CASE k = "id" -> <<"i", "d">>
      [] k = "__currentUser" -> <<"_", "_", "c", "u", "r", "r", "e", "n", "t", "U", "s", "e", "r">>
      [] OTHER -> <<k>>

InTemplate(T, k) == checkFieldInTemplate(T, KeyChars(k))


\* ------------------------------------------------------------ trigger gate
\* cloneValues: JSON.stringify(values.value, (k, v) => v === undefined ? null : v)
\* followed by JSON.parse: every undefined value becomes null, keys are kept.
Serialize(rec) == [k \in DOMAIN rec |-> IF rec[k] = Undef THEN Null ELSE rec[k]]

\* the fields shouldUpdate pushes to changedFields
ChangedFields(computedField, val, oldVal) ==
    {k \in DOMAIN oldVal \cup DOMAIN val : k # computedField /\ Get(val, k) # Get(oldVal, k)}

\* shouldUpdate without lines 29-32
shouldUpdateNoEmptyCase(T, computedField, val, oldVal) ==
    \E field \in ChangedFields(computedField, val, oldVal) : InTemplate(T, field)

\* shouldUpdate without the template check of line 34
shouldUpdateAlways(T, computedField, val, oldVal) == TRUE

shouldUpdate(T, computedField, val, oldVal) ==
    LET changedFields == ChangedFields(computedField, val, oldVal) IN
    IF changedFields = {} THEN TRUE
    ELSE \E field \in changedFields : InTemplate(T, field)

\* ------------------------------------------------------- relation metadata
NoField == "-"
Collection == "articles"
ComputedField == "c"

\* relations.value: a is a many-to-one field of the edited collection, o a
\* one-to-many field (the items whose field "parent" points at the record);
\* a second many-to-one field is named like the reserved key
Relations ==
    << [collection |-> "articles", related_collection |-> "authors",
        one_field |-> NoField, many_field |-> "a"],
       [collection |-> "articles", related_collection |-> "authors",
        one_field |-> NoField, many_field |-> "__currentUser"],
       [collection |-> "items", related_collection |-> "articles",
        one_field |-> "o", many_field |-> "parent"] >>

NoRelation == [collection |-> NoField]

\* relations.value.find((rel) => [rel.meta?.one_field, rel.meta?.many_field].includes(key))
FindRelation(key) ==
    LET hits == SelectSeq(Relations, LAMBDA r : key \in {r.one_field, r.many_field}) IN
    IF Len(hits) = 0 THEN NoRelation ELSE hits[1]

IsM2O(r) == r.collection = Collection
FieldName(r) == IF IsM2O(r) THEN r.many_field ELSE r.one_field
RelatedCollection(r) == IF IsM2O(r) THEN r.related_collection ELSE r.collection

\* the keys the loop resolves: a relation exists and the template names the key
Resolves(key) == FindRelation(key) # NoRelation /\ InTemplate(template, key)

\* ------------------------------------------------------------ remote server
\* The request client is outside the repository.  The server holds every id
\* of Ids in both related collections; a read by id filter answers with the
\* entities of the requested ids, in the order asked for or sorted by id.
Ids == {1, 2, 3}
Baseline == <<1, 2, 3>>
Entity(coll, id) == [id |-> id, n |-> coll, s |-> "stored"]

SeqToSet(s) == {s[x] : x \in 1..Len(s)}

\* the ids of S in ascending order
RECURSIVE Ascending(_)
Ascending(S) ==
    IF S = {} THEN <<>>
    ELSE LET m == CHOOSE x \in S : \A y \in S : x <= y IN <<m>> \o Ascending(S \ {m})

\* the ids of a list without repetitions, in the order of their first occurrence
RECURSIVE Distinct(_)
Distinct(ids) ==
    IF Len(ids) = 0 THEN <<>>
    ELSE LET front == Distinct(SubSeq(ids, 1, Len(ids) - 1)) IN
         IF ids[Len(ids)] \in SeqToSet(front) THEN front ELSE Append(front, ids[Len(ids)])

\* the orders the server may answer in: the order asked for, or by primary key
ServerOrders(ids) == {Distinct(ids), Ascending(SeqToSet(ids))}

\* the possible bodies of GET items/<coll>?filter[id][_in]=ids
ItemResponses(coll, ids) ==
    {[x \in 1..Len(q) |-> Entity(coll, q[x])] : q \in ServerOrders(ids)}


\* ------------------------------------------------------- Deep Values Engine
FieldOrder == <<"id", "c", "t", "a", "o", "__currentUser">>

\* Object.keys(obj): the form hands its fields over in a fixed order
KeysOf(obj) == SelectSeq(FieldOrder, LAMBDA k : k \in DOMAIN obj)

\* lines 80-84 left out
NullFillNone(valObj, oldValObj) == valObj

\* the loop of lines 80-84: valObj[key] = null for the keys only oldValObj has
NullFill(valObj, oldValObj) ==
    [k \in DOMAIN valObj \cup DOMAIN oldValObj |-> IF k \in DOMAIN valObj THEN valObj[k] ELSE Null]

\* Object.keys(valObj) after the loop of lines 80-84: the added keys come last
KeysAfterFill(valObj, oldValObj) ==
    KeysOf(valObj) \o SelectSeq(KeysOf(oldValObj), LAMBDA k : k \notin DOMAIN valObj)

\* JS truthiness of a record value
Truthy(x) ==
    CASE x.t \in {"null", "undef"} -> FALSE
      [] x.t = "num" -> x.v # 0
      [] x.t = "str" -> x.v # ""
      [] OTHER -> TRUE

\* const pkFinal = valObj.id || pk.value
PkFinal(valObj) == IF Truthy(Get(valObj, "id")) THEN Get(valObj, "id") ELSE pk

NewRecord == Str("+")

DefaultChanges == Obj([create |-> <<>>, update |-> <<>>, delete |-> <<>>])

\* valObj[fieldName] ?? { create: [], update: [], delete: [] }
RawChanges(valObj, fieldName) ==
    LET raw == Get(valObj, fieldName) IN
    IF raw.t \in {"null", "undef"} THEN DefaultChanges ELSE raw

\* fieldChanges.<list>, the empty list when the property is missing
Prop(x, name) == IF x.t = "obj" /\ name \in DOMAIN x.v THEN x.v[name] ELSE <<>>

\* lines 108-124 without the test of line 119: every object is a created entity
NormalizeM2OAllCreate(fieldChanges) ==
    IF IsScalar(fieldChanges)
    THEN [create |-> <<>>, update |-> <<[id |-> fieldChanges.v]>>, delete |-> <<>>]
    ELSE IF IsTypeofObject(fieldChanges)
    THEN [create |-> <<fieldChanges.v>>, update |-> <<>>, delete |-> <<>>]
    ELSE [create |-> <<>>, update |-> <<>>, delete |-> <<>>]

\* fieldChanges as lines 108-124 leave it for a many-to-one field
NormalizeM2O(fieldChanges) ==
    IF IsScalar(fieldChanges)
    THEN [create |-> <<>>, update |-> <<[id |-> fieldChanges.v]>>, delete |-> <<>>]
    ELSE IF fieldChanges.t = "obj" /\ "id" \in DOMAIN fieldChanges.v
    THEN [create |-> <<>>, update |-> <<fieldChanges.v>>, delete |-> <<>>]
    ELSE IF IsTypeofObject(fieldChanges)
    THEN [create |-> <<fieldChanges.v>>, update |-> <<>>, delete |-> <<>>]
    ELSE [create |-> <<>>, update |-> <<>>, delete |-> <<>>]

\* the three lists lines 148-195 read from fieldChanges
Changes(isM2O, fieldChanges) ==
    IF isM2O THEN NormalizeM2O(fieldChanges)
    ELSE [create |-> Prop(fieldChanges, "create"),
          update |-> Prop(fieldChanges, "update"),
          delete |-> Prop(fieldChanges, "delete")]

\* line 112 left out: every scalar many-to-one value drops the caches
ResetSignalAnyScalar(isM2O, fieldChanges, oldRaw) ==
    IF isM2O THEN IsScalar(fieldChanges)
    ELSE IsArray(fieldChanges) /\ ~IsArray(oldRaw)

\* the conditions of lines 112 and 126 under which both caches are dropped
ResetSignal(isM2O, fieldChanges, oldRaw) ==
    IF isM2O THEN IsScalar(fieldChanges) /\ IsTypeofObject(oldRaw)
    ELSE IsArray(fieldChanges) /\ ~IsArray(oldRaw)

\* fieldChanges.update.map(({ id }) => id)
UpdateIds(ch) == [x \in 1..Len(ch.update) |-> ch.update[x].id]

\* lines 145-155 without the filter of lines 153-155
FilterBaselineKeepDeleted(data, ch) ==
    SelectSeq(data, LAMBDA id : id \notin SeqToSet(UpdateIds(ch)))

\* lines 145-155: the baseline ids without the updated and the deleted ones
FilterBaseline(data, ch) ==
    LET updatedIds == SeqToSet(UpdateIds(ch))
        kept == SelectSeq(data, LAMBDA id : id \notin updatedIds)
    IN SelectSeq(kept, LAMBDA id : id \notin SeqToSet(ch.delete))

\* lines 158-160: arrayOfIds.concat(the update ids)
WithUpdateIds(arrayOfIds, ch) == arrayOfIds \o UpdateIds(ch)

\* line 168: every id is in itemCache[relatedCollection]
CacheHit(ic, coll, arrayOfIds) ==
    coll \in DOMAIN ic /\ \A x \in 1..Len(arrayOfIds) : arrayOfIds[x] \in DOMAIN ic[coll]

\* lines 178-182 run for the first entity of data only
StoreItemsFirst(ic, coll, data) ==
    IF Len(data) = 0 THEN ic
    ELSE LET before == IF coll \in DOMAIN ic THEN ic[coll] ELSE EmptyObj IN
         Spread(ic, [c \in {coll} |-> Spread(before, [id \in {data[1].id} |-> data[1]])])

\* lines 178-182 over the whole of data
StoreItems(ic, coll, data) ==
    IF Len(data) = 0 THEN ic
    ELSE LET before == IF coll \in DOMAIN ic THEN ic[coll] ELSE EmptyObj
             got == [id \in {data[x].id : x \in 1..Len(data)} |->
                        LET last == CHOOSE x \in 1..Len(data) :
                                /\ data[x].id = id
                                /\ \A y \in 1..Len(data) : data[y].id = id => y <= x
                        IN data[last]]
         IN Spread(ic, [c \in {coll} |-> Spread(before, got)])

\* lines 184-187: { ...item, ...fieldChanges.update?.find(({ id }) => item.id === id) }
MergeUpdate(item, ch) ==
    LET hits == SelectSeq(ch.update, LAMBDA u : u.id = item.id) IN
    IF Len(hits) = 0 THEN item ELSE Spread(item, hits[1])

\* line 197
FieldValue(isM2O, arrayOfData) ==
    IF isM2O THEN (IF Len(arrayOfData) = 0 THEN Undef ELSE Obj(arrayOfData[1]))
    ELSE Arr(arrayOfData)

CurrentUser == Obj([n |-> "me"])

\* line 200 with the current user spread first
ComposeUserFirst(valObj, relationalData) ==
    Spread(Spread([k \in {"__currentUser"} |-> CurrentUser], valObj), relationalData)

\* line 200: { ...valObj, ...relationalData, __currentUser: userStore.currentUser }
Compose(valObj, relationalData) ==
    Spread(Spread(valObj, relationalData), [k \in {"__currentUser"} |-> CurrentUser])


\* ---------------------------------------------- one invocation of the callback
\* The locals of an invocation of the watch callback: pc is where it stands
\* (loop: line 89, items: line 162, merge: line 177, waitField: the await of
\* line 138, waitItems: the await of line 171, publish: line 200), i indexes
\* Object.keys(valObj), rel is relationalData, ids is arrayOfIds, data the
\* entities read; fc and ic are the two caches as the invocation sees them.
\* removed, reset and fetched record the keys lines 80-84 added, the keys at
\* which the invocation dropped the caches and the remote reads it was answered
\* (history only).
Begin(valObj, oldValObj, gen, fc, ic) ==
    [pc |-> "loop", gen |-> gen,
     val |-> NullFill(valObj, oldValObj), old |-> oldValObj,
     keys |-> KeysAfterFill(valObj, oldValObj), i |-> 1,
     rel |-> EmptyObj, ids |-> <<>>, data |-> <<>>,
     removed |-> DOMAIN oldValObj \ DOMAIN valObj,
     reset |-> {}, fetched |-> {}, fc |-> fc, ic |-> ic]

KeyAt(st) == st.keys[st.i]
RelAt(st) == FindRelation(KeyAt(st))
ChangesAt(st) == Changes(IsM2O(RelAt(st)), RawChanges(st.val, FieldName(RelAt(st))))

\* lines 145-160 once the baseline data is known
AfterBaseline(st, data) ==
    [st EXCEPT !.ids = WithUpdateIds(FilterBaseline(data, ChangesAt(st)), ChangesAt(st)),
               !.pc = "items"]

\* lines 89-160 for the key at i, up to the await of line 138
EnterField(st) ==
    IF st.i > Len(st.keys) THEN [st EXCEPT !.pc = "publish"]
    ELSE IF ~Resolves(KeyAt(st)) THEN [st EXCEPT !.i = @ + 1]
    ELSE
      LET key == KeyAt(st)
          isM2O == IsM2O(RelAt(st))
          fieldChanges == RawChanges(st.val, FieldName(RelAt(st)))
          clear == ResetSignal(isM2O, fieldChanges, Get(st.old, key))
          s1 == [st EXCEPT !.fc = IF clear THEN EmptyObj ELSE @,
                           !.ic = IF clear THEN EmptyObj ELSE @,
                           !.reset = IF clear THEN @ \cup {key} ELSE @]
      IN IF isM2O THEN [s1 EXCEPT !.ids = WithUpdateIds(<<>>, ChangesAt(st)), !.pc = "items"]
         ELSE IF PkFinal(st.val) # NewRecord
         THEN (IF key \in DOMAIN s1.fc THEN AfterBaseline(s1, s1.fc[key])
               ELSE [s1 EXCEPT !.pc = "waitField"])
         ELSE AfterBaseline(s1, <<>>)

\* lines 192-197 and the step to the next key
FinishField(st, arrayOfData) ==
    LET value == FieldValue(IsM2O(RelAt(st)), arrayOfData \o ChangesAt(st).create) IN
    [st EXCEPT !.rel = Spread(@, [k \in {KeyAt(st)} |-> value]),
               !.i = @ + 1, !.pc = "loop", !.ids = <<>>, !.data = <<>>]

\* lines 162-174 with the read of line 171 not awaited: the loop goes on to the
\* next key while the read is outstanding
LookupItemsNoAwait(st) ==
    LET coll == RelatedCollection(RelAt(st)) IN
    IF Len(st.ids) = 0 THEN FinishField(st, <<>>)
    ELSE IF CacheHit(st.ic, coll, st.ids)
    THEN [st EXCEPT !.data = [x \in 1..Len(st.ids) |-> st.ic[coll][st.ids[x]]], !.pc = "merge"]
    ELSE [st EXCEPT !.i = @ + 1, !.pc = "loop", !.ids = <<>>]

\* lines 162-174, up to the await of line 171
LookupItems(st) ==
    LET coll == RelatedCollection(RelAt(st)) IN
    IF Len(st.ids) = 0 THEN FinishField(st, <<>>)
    ELSE IF CacheHit(st.ic, coll, st.ids)
    THEN [st EXCEPT !.data = [x \in 1..Len(st.ids) |-> st.ic[coll][st.ids[x]]], !.pc = "merge"]
    ELSE [st EXCEPT !.pc = "waitItems"]

\* lines 177-188
MergeItems(st) ==
    LET s1 == [st EXCEPT !.ic = StoreItems(@, RelatedCollection(RelAt(st)), st.data)] IN
    FinishField(s1, [x \in 1..Len(st.data) |-> MergeUpdate(st.data[x], ChangesAt(st))])

Step(st) ==
    CASE st.pc = "loop" -> EnterField(st)
      [] st.pc = "items" -> LookupItems(st)
      [] st.pc = "merge" -> MergeItems(st)

\* the callback runs without interruption up to its next await or to its end
RECURSIVE Run(_)
Run(st) == IF st.pc \in {"waitField", "waitItems", "publish"} THEN st ELSE Run(Step(st))

Locals == {"pc", "gen", "val", "old", "keys", "i", "rel", "ids", "data", "removed", "reset", "fetched"}
PassOf(st) == [f \in Locals |-> st[f]]
WithCaches(p, fc, ic) == Spread(p, [fc |-> fc, ic |-> ic])

\* line 200 guarded by a generation check: only the latest invocation publishes
PublishedUnlessStale(st, fv) ==
    IF st.pc = "publish" /\ st.gen = nEdits THEN Compose(st.val, st.rel) ELSE fv

\* the ResolvedRecord and the suspended invocations once st has come to rest
Published(st, fv) == IF st.pc = "publish" THEN Compose(st.val, st.rel) ELSE fv
Suspended(st, ps) == IF st.pc = "publish" THEN ps ELSE ps \cup {PassOf(st)}

\* what a step did: the callback it ran (kind), where that came to rest (out)
\* and, when it published, the locals it published from
NoEvent(kind, out, gen) ==
    [kind |-> kind, out |-> out, gen |-> gen, val |-> EmptyObj, old |-> EmptyObj,
     rel |-> EmptyObj, removed |-> {}, reset |-> {}, fetched |-> {}]

Event(kind, st) ==
    IF st.pc = "publish"
    THEN [kind |-> kind, out |-> st.pc, gen |-> st.gen, val |-> st.val, old |-> st.old,
          rel |-> st.rel, removed |-> st.removed, reset |-> st.reset, fetched |-> st.fetched]
    ELSE NoEvent(kind, st.pc, st.gen)

\* lines 73-200 up to the first await: the gate, then the loop
Callback(kind, valObj, oldValObj, gen, fv, fc, ic, ps) ==
    IF ~shouldUpdate(template, ComputedField, valObj, oldValObj)
    THEN [fv |-> fv, fc |-> fc, ic |-> ic, ps |-> ps,
          ev |-> NoEvent(kind, "skip", gen)]
    ELSE LET st == Run(Begin(valObj, oldValObj, gen, fc, ic)) IN
         [fv |-> Published(st, fv), fc |-> st.fc, ic |-> st.ic, ps |-> Suspended(st, ps),
          ev |-> Event(kind, st)]


\* ------------------------------------------------------------------ inputs
Absent == [t |-> "absent"]

TemplateAO == <<"{", "{", "a", "}", "}", " ", "{", "{", "o", "}", "}">>
TemplateTO == <<"{", "{", "t", "}", "}", " ", "{", "{", "o", "}", "}">>
Templates == {TemplateAO, TemplateTO}
TemplateUser ==
    <<"{", "{", "_", "_", "c", "u", "r", "r", "e", "n", "t", "U", "s", "e", "r", "}", "}", " ",
      "{", "{", "o", "}", "}">>

\* a many-to-one raw value: an id, an entity being edited, an entity being created
AOpts == {Num(1), Obj([id |-> 2, n |-> "x"]), Obj([n |-> "x"]), Null}

\* a one-to-many raw value: the saved list of ids, or a pending mutation set
OOpts ==
    { Arr(Baseline),
      Obj([create |-> <<[n |-> "cr"]>>, update |-> <<[id |-> 2, n |-> "new"]>>, delete |-> <<3>>]),
      Obj([create |-> <<>>, update |-> <<[id |-> 1, n |-> "new"]>>, delete |-> <<1>>]) }

\* The forms the interface is mounted in.  Each gives the values its fields can
\* be set to (set), what they may hold at mount time (init), the templates and
\* the primary key: plain fields beside a saved one-to-many field; a
\* one-to-many field under edit; a many-to-one field beside a saved one-to-many
\* field; a record not yet saved, whose id the form may have filled in; a
\* many-to-one field under edit beside a one-to-many field that stays as saved;
\* a record named like the reserved key; a many-to-one field linked to one
\* entity after another.
FormSet(f) ==
    CASE f = "plain" -> [c |-> {Str("c0")}, t |-> {Str("t0")}, o |-> {Arr(Baseline)}]
      [] f = "o2m" -> [o |-> OOpts]
      [] f = "m2o" -> [a |-> AOpts, o |-> {Arr(Baseline)}]
      [] f = "new" -> [id |-> {}, o |-> OOpts]
      [] f = "author" -> [a |-> AOpts \ {Null}, o |-> {}]
      [] f = "link" -> [a |-> {Num(1), Num(3), Obj([id |-> 2, n |-> "x"])}, o |-> {}]
      [] f = "user" -> [__currentUser |-> {Num(1), Obj([id |-> 2, n |-> "x"]), Obj([n |-> "x"])}, o |-> {}]

FormInit(f) ==
    CASE f = "plain" -> [c |-> {Absent}, t |-> {Absent, Str("t0"), Undef}, o |-> {Absent, Arr(Baseline)}]
      [] f = "o2m" -> [o |-> {Absent} \cup OOpts]
      [] f = "m2o" -> [a |-> {Absent, Undef} \cup (AOpts \ {Null}), o |-> {Absent, Arr(Baseline)}]
      [] f = "new" -> [id |-> {Absent, Num(9)}, o |-> {Absent} \cup OOpts]
      [] f = "author" -> [a |-> {Absent, Num(1)}, o |-> {Arr(Baseline)}]
      [] f = "link" -> [a |-> {Absent, Obj([id |-> 2, n |-> "x"])}, o |-> {Arr(Baseline)}]
      [] f = "user" -> [__currentUser |-> {Absent, Num(2)}, o |-> {Absent, Arr(Baseline)}]

FormTemplates(f) ==
    CASE f = "plain" -> Templates
      [] f = "user" -> {TemplateUser, TemplateAO}
      [] OTHER -> {TemplateAO}
FormPk(f) == IF f = "new" THEN NewRecord ELSE Num(7)
Forms == {"plain", "o2m", "m2o", "new", "author", "user", "link"}

\* the records the form f may hold when the interface is mounted
InitRecords(f) ==
    LET F == DOMAIN FormInit(f)
        all == UNION {FormInit(f)[k] : k \in F}
    IN {[k \in {x \in F : g[x] # Absent} |-> g[k]] :
           g \in {h \in [F -> all] : \A k \in F : h[k] \in FormInit(f)[k]}}

Set(rec, k, v) == Spread(rec, [x \in {k} |-> v])
Remove(rec, k) == [x \in DOMAIN rec \ {k} |-> rec[x]]

\* what one change of the form can turn the record into
Edits(rec) ==
    UNION {{Set(rec, k, v) : v \in FormSet(form)[k]} : k \in DOMAIN FormSet(form)}
    \cup {Remove(rec, k) : k \in {x \in DOMAIN rec : FormSet(form)[x] # {}}}

\* ----------------------------------------------------------------- actions
NoProbe == [fn |-> "none"]

InitialFinalValues == [k \in {"__currentUser"} |-> CurrentUser]

\* useDeepValues: lines 57-63, then the immediate run of the watcher (oldVal
\* is undefined, so oldValObj is {})
InitIn(F) ==
    /\ form \in F
    /\ template \in FormTemplates(form)
    /\ pk = FormPk(form)
    /\ values \in InitRecords(form)
    /\ nEdits = 0
    /\ nRejects = 0
    /\ probe = NoProbe
    /\ \E r \in {Callback("init", Serialize(values), EmptyObj, 0,
                            InitialFinalValues, EmptyObj, EmptyObj, {})} :
          /\ finalValues = r.fv
          /\ fieldCache = r.fc
          /\ itemCache = r.ic
          /\ passes = r.ps
          /\ ev = r.ev

\* the form changes values.value and the watcher fires with the new and the
\* previous serialization
Edit ==
    /\ nEdits < MaxEdits
    /\ Cardinality(passes) < MaxInFlight
    /\ \E rec \in Edits(values) :
        /\ Serialize(rec) # Serialize(values)
        /\ values' = rec
        /\ \E r \in {Callback("edit", Serialize(rec), Serialize(values), nEdits + 1,
                                finalValues, fieldCache, itemCache, passes)} :
              /\ finalValues' = r.fv
              /\ fieldCache' = r.fc
              /\ itemCache' = r.ic
              /\ passes' = r.ps
              /\ ev' = r.ev
    /\ nEdits' = nEdits + 1
    /\ UNCHANGED <<nRejects, template, pk, form, probe>>

\* the state after the invocation st came to rest again
Rest(kind, p, st0) ==
  \E st \in {st0} :
    /\ finalValues' = Published(st, finalValues)
    /\ fieldCache' = st.fc
    /\ itemCache' = st.ic
    /\ passes' = Suspended(st, passes \ {p})
    /\ ev' = Event(kind, st)
    /\ UNCHANGED <<values, nEdits, nRejects, template, pk, form, probe>>

\* the read of line 138 is answered: lines 142-145, then on to the next await
RespondField ==
    \E p \in passes :
        /\ p.pc = "waitField"
        /\ LET key == KeyAt(p)
               data == Baseline
               fc1 == Spread(fieldCache, [k \in {key} |-> data])
               s0 == [WithCaches(p, fc1, itemCache) EXCEPT !.fetched = @ \cup {<<key, "field">>}]
           IN Rest("field", p, Run(AfterBaseline(s0, data)))

\* the read of line 171 is answered: lines 173-197, then on to the next await
RespondItems ==
    \E p \in passes :
        /\ p.pc = "waitItems"
        /\ \E data \in ItemResponses(RelatedCollection(RelAt(p)), p.ids) :
            LET s0 == [WithCaches(p, fieldCache, itemCache) EXCEPT
                          !.pc = "merge", !.data = data,
                          !.fetched = @ \cup {<<KeyAt(p), "items">>}]
            IN Rest("items", p, Run(s0))

\* line 200 in a finally block: what is resolved so far is published
AfterRejectPartial(fv, p) == Compose(p.val, p.rel)

\* the ResolvedRecord after the await of invocation p was rejected: nothing
\* catches the rejection, so line 200 is never reached
AfterReject(fv, p) == fv

\* a remote read fails
Reject ==
    \E p \in passes :
        /\ nRejects < MaxRejects
        /\ nRejects' = nRejects + 1
        /\ finalValues' = AfterReject(finalValues, p)
        /\ passes' = passes \ {p}
        /\ ev' = [NoEvent("reject", "reject", p.gen) EXCEPT !.rel = p.rel]
        /\ UNCHANGED <<values, fieldCache, itemCache, nEdits, template, pk, form, probe>>

Next == Edit \/ RespondField \/ RespondItems \/ Reject

\* the watcher's callback invoked once more with the serialization it saw last
Rerun ==
    /\ nEdits < MaxEdits
    /\ Cardinality(passes) < MaxInFlight
    /\ \E r \in {Callback("rerun", Serialize(values), Serialize(values), nEdits + 1,
                            finalValues, fieldCache, itemCache, passes)} :
          /\ finalValues' = r.fv
          /\ fieldCache' = r.fc
          /\ itemCache' = r.ic
          /\ passes' = r.ps
          /\ ev' = r.ev
    /\ nEdits' = nEdits + 1
    /\ UNCHANGED <<values, nRejects, template, pk, form, probe>>

NextRerun == Edit \/ Rerun \/ RespondField \/ RespondItems \/ Reject

Init == InitIn(Forms)

Spec == Init /\ [][Next]_vars

\* the same program, one form at a time
InitPlain == InitIn({"plain"})
SpecPlain == InitPlain /\ [][Next]_vars

InitO2M == InitIn({"o2m"})
SpecO2M == InitO2M /\ [][Next]_vars

InitM2O == InitIn({"m2o"})
SpecM2O == InitM2O /\ [][Next]_vars

InitNew == InitIn({"new"})
SpecNew == InitNew /\ [][Next]_vars

InitAuthor == InitIn({"author"})
SpecAuthor == InitAuthor /\ [][Next]_vars

InitUser == InitIn({"user"})
SpecUser == InitUser /\ [][Next]_vars

InitLink == InitIn({"link"})
SpecLink == InitLink /\ [][Next]_vars

\* the callback driven directly, with the same record twice
SpecRerun == InitM2O /\ [][NextRerun]_vars


\* ============================================================== properties
\* the step published a ResolvedRecord / the watcher fired on a changed record
Publishes == ev'.out = "publish" /\ ev' # ev
Fires == nEdits' = nEdits + 1 /\ ev'.kind = "edit"

\* the fields other than the computed one
Others(rec) == DOMAIN rec \ {ComputedField}

\* the record's keys are all in the ResolvedRecord fv, the unresolved ones verbatim
DerivedFrom(fv, rec) ==
    \A k \in DOMAIN rec : k \in DOMAIN fv /\ (~Resolves(k) => fv[k] = rec[k])

\* ---- C1
\* C1 as stated: on the first invocation the gate lets the pass run for every
\* template and every record, and unless a read fails a ResolvedRecord derived
\* from the record is published.
C1_AlwaysPopulates ==
    (nEdits = 0 /\ nRejects = 0) =>
        \/ \E p \in passes : p.gen = 0
        \/ ev.out = "publish" /\ DerivedFrom(finalValues, Serialize(values))

\* C1 amended: on the first invocation the gate lets the pass run exactly when
\* the record has no field besides the computed one or the template references
\* one of its other fields; then, unless a read fails, a ResolvedRecord holding
\* every key of the record is published.  Otherwise nothing runs and the
\* ResolvedRecord keeps its initial value.
C1_InitialPopulation ==
    (nEdits = 0 /\ nRejects = 0) =>
        LET rec == Serialize(values)
            runs == Others(rec) = {} \/ \E k \in Others(rec) : InTemplate(template, k)
        IN IF runs
           THEN \/ \E p \in passes : p.gen = 0
                \/ ev.out = "publish" /\ DerivedFrom(finalValues, rec)
           ELSE passes = {} /\ ev.out = "skip" /\ finalValues = InitialFinalValues

C1_Witness ==
    /\ nEdits = 0 /\ nRejects = 0 /\ passes = {}
    /\ ev.kind = "items" /\ ev.out = "publish"
    /\ finalValues # InitialFinalValues

\* ---- C2
\* C2 as stated: when the record changes and every changed field other than the
\* computed one is unreferenced, the recomputation is skipped: ResolvedRecord
\* and caches stay and no read is issued.
C2_SkipsUnreferenced ==
    [][ (Fires /\ \A k \in ChangedFields(ComputedField, Serialize(values'), Serialize(values)) :
                      ~InTemplate(template, k))
        => (ev'.out = "skip" /\ UNCHANGED <<finalValues, fieldCache, itemCache, passes>>) ]_vars

\* C2 amended: when at least one field other than the computed one changes and
\* every such changed field is unreferenced, the recomputation is skipped:
\* ResolvedRecord and caches stay and no read is issued.
C2_SkipsUnreferencedChange ==
    [][ (Fires /\ LET changed == ChangedFields(ComputedField, Serialize(values'), Serialize(values))
                  IN changed # {} /\ \A k \in changed : ~InTemplate(template, k))
        => (ev'.out = "skip" /\ UNCHANGED <<finalValues, fieldCache, itemCache, passes>>) ]_vars

C2_Witness ==
    /\ ev.kind = "edit" /\ ev.out = "skip"
    /\ passes # {}
    /\ finalValues # InitialFinalValues


\* ---- C3
\* C3: once a recomputation of the current record has succeeded (it removed no
\* key, and nothing else is in flight), running the callback again with the
\* same serialized record issues no remote read and publishes the same
\* ResolvedRecord.
C3_Idempotent ==
    [][ (ev'.kind = "rerun" /\ nEdits' = nEdits + 1
         /\ ev.out = "publish" /\ ev.gen = nEdits /\ passes = {}
         /\ ev.removed = {})
        => (ev'.out = "publish" /\ passes' = {} /\ finalValues' = finalValues) ]_vars

\* ---- C4
IsO2MKey(k) == FindRelation(k) # NoRelation /\ ~IsM2O(FindRelation(k))

\* C4: a pass that dropped the caches at a one-to-many field (array now, no
\* array before) of a persisted record gets that field's baseline ids and its
\* entities from remote reads of its own.
C4_ResetReadsFresh ==
    (ev.out = "publish" /\ PkFinal(ev.val) # NewRecord) =>
        \A k \in ev.reset : IsO2MKey(k) =>
            <<k, "field">> \in ev.fetched /\ <<k, "items">> \in ev.fetched

\* ---- C5
\* the lists of the one-to-many field o in the published pass
OChanges == Changes(FALSE, RawChanges(ev.val, "o"))
OUpdated == [x \in 1..Len(OChanges.update) |-> OChanges.update[x].id]
ODeleted == SeqToSet(OChanges.delete)
OKept == SelectSeq(Baseline, LAMBDA id : id \notin SeqToSet(OUpdated) /\ id \notin ODeleted)
OExpected ==
    [x \in 1..Len(OKept) |-> Entity("items", OKept[x])]
    \o [x \in 1..Len(OUpdated) |-> Spread(Entity("items", OUpdated[x]), OChanges.update[x])]
OPublished == ev.out = "publish" /\ "o" \in DOMAIN ev.val /\ PkFinal(ev.val) # NewRecord

\* C5 as stated: the resolved array is the kept baseline entities in baseline
\* order, then the updated entities in update order, each merged with its
\* update entry, then the created entries; no deleted id appears.
C5_Reconciliation ==
    OPublished =>
        /\ finalValues["o"] = Arr(OExpected \o OChanges.create)
        /\ \A x \in 1..Len(finalValues["o"].v) :
              "id" \in DOMAIN finalValues["o"].v[x] => finalValues["o"].v[x].id \notin ODeleted


\* C5 amended: the resolved array holds one entity for every kept baseline id
\* and every updated id, each updated one merged with its update entry, in
\* baseline-then-update order when the entities come from ItemCache and in the
\* order of the response when they are read remotely, followed by the created
\* entries; a deleted id appears only if it is also in the update list.
C5_ReconciliationAsRead ==
    OPublished =>
        LET resolved == finalValues["o"].v
            n == Len(OExpected)
            head == SubSeq(resolved, 1, n)
        IN /\ Len(resolved) = n + Len(OChanges.create)
           /\ SubSeq(resolved, n + 1, Len(resolved)) = OChanges.create
           /\ IF <<"o", "items">> \in ev.fetched
              THEN SeqToSet(head) = SeqToSet(OExpected)
              ELSE head = OExpected
           /\ \A x \in 1..n : head[x].id \in ODeleted => head[x].id \in SeqToSet(OUpdated)

C5_Witness ==
    /\ OPublished
    /\ Len(OKept) > 0 /\ Len(OUpdated) > 0 /\ ODeleted # {} /\ Len(OChanges.create) > 0
    /\ <<"o", "items">> \in ev.fetched

\* ---- C6
\* C6: a many-to-one raw value that is an id resolves to the entity of that id,
\* an object with an id to that entity overlaid with the object's fields, an
\* object without an id to the object itself, with no entity read.
C6_ManyToOne ==
    /\ (ev.out = "publish" /\ "a" \in DOMAIN ev.val /\ Resolves("a")) =>
          LET raw == ev.val["a"] IN
          /\ raw.t = "num" => finalValues["a"] = Obj(Entity("authors", raw.v))
          /\ (raw.t = "obj" /\ "id" \in DOMAIN raw.v) =>
                LET entity == Entity("authors", raw.v.id)
                    resolved == finalValues["a"].v
                IN /\ finalValues["a"].t = "obj"
                   /\ DOMAIN resolved = DOMAIN entity \cup DOMAIN raw.v
                   /\ \A k \in DOMAIN raw.v : resolved[k] = raw.v[k]
                   /\ \A k \in DOMAIN entity \ DOMAIN raw.v : resolved[k] = entity[k]
          /\ (raw.t = "obj" /\ "id" \notin DOMAIN raw.v) =>
                finalValues["a"] = raw /\ <<"a", "items">> \notin ev.fetched
    /\ \A p \in passes : (p.pc = "waitItems" /\ KeyAt(p) = "a") =>
          LET raw == p.val["a"] IN raw.t = "num" \/ (raw.t = "obj" /\ "id" \in DOMAIN raw.v)

C6_Witness ==
    /\ ev.out = "publish" /\ "a" \in DOMAIN ev.val
    /\ ev.val["a"].t = "obj" /\ "id" \in DOMAIN ev.val["a"].v
    /\ <<"a", "items">> \in ev.fetched
    /\ finalValues["a"].v.n = "x" /\ finalValues["a"].v.s = "stored"

\* ---- C7
\* C7: a published ResolvedRecord holds null under every key that the previous
\* edited record of the pass had and its new edited record has not.
C7_RemovedKeysNull ==
    ev.out = "publish" =>
        \A k \in ev.removed : k \in DOMAIN finalValues /\ finalValues[k] = Null

\* ---- C8
\* C8: each time a new ResolvedRecord replaces the previous one, every key of
\* the previous ResolvedRecord (the current-user key aside) that the new edited
\* record lacks is in the new ResolvedRecord with the value null.
C8_RemovalInvariant ==
    [][ Publishes =>
          \A k \in DOMAIN finalValues \ {"__currentUser"} :
              k \notin (DOMAIN ev'.val \ ev'.removed) =>
                  k \in DOMAIN finalValues' /\ finalValues'[k] = Null ]_vars

\* C8 amended: a published ResolvedRecord holds every key that the previous
\* edited record of the publishing pass had and its new edited record has not,
\* with the value null when the key is not a template-referenced relational
\* field; a key of the previous ResolvedRecord that neither edited record of
\* the pass has is dropped.
C8_RemovalFromPreviousRecord ==
    [][ Publishes =>
          /\ \A k \in ev'.removed :
                k \in DOMAIN finalValues' /\ (~Resolves(k) => finalValues'[k] = Null)
          /\ \A k \in DOMAIN finalValues \ ({"__currentUser"} \cup DOMAIN ev'.val) :
                k \notin DOMAIN finalValues' ]_vars

C8_Witness ==
    /\ ev.out = "publish" /\ nEdits > 0
    /\ \E k \in ev.removed : ~Resolves(k) /\ finalValues[k] = Null

\* ---- C9
\* C9: a pass whose remote read fails leaves the ResolvedRecord as it was, and
\* the ResolvedRecord only ever changes to the complete result of a pass that
\* reached line 200: its record with every template-referenced relational key
\* resolved.
C9_LastGoodValue ==
    [][ /\ (ev'.kind = "reject" /\ passes' # passes) => finalValues' = finalValues
        /\ finalValues' # finalValues =>
              /\ ev'.out = "publish"
              /\ finalValues' = Compose(ev'.val, ev'.rel)
              /\ DOMAIN ev'.rel = {k \in DOMAIN ev'.val : Resolves(k)} ]_vars

C9_Witness ==
    /\ ev.kind = "reject" /\ DOMAIN ev.rel # {}
    /\ finalValues # InitialFinalValues

\* ---- C10
\* C10: an edit never removes a suspended pass, and a pass that reaches line
\* 200 sets the ResolvedRecord to its own result whether or not a later edit
\* has started another pass.
C10_NoCancellation ==
    [][ /\ Fires => passes \subseteq passes'
        /\ Publishes => finalValues' = Compose(ev'.val, ev'.rel) ]_vars

C10_Witness ==
    /\ passes = {} /\ nRejects = 0
    /\ ev.out = "publish" /\ ev.gen < nEdits
    /\ finalValues = Compose(ev.val, ev.rel)

\* ---- C11
\* C11: in every state the ResolvedRecord has the key __currentUser and it
\* holds the current-user snapshot, whatever the edited record or a resolved
\* relational field puts under that key.
C11_CurrentUserKept ==
    /\ "__currentUser" \in DOMAIN finalValues
    /\ finalValues["__currentUser"] = CurrentUser

C11_Witness ==
    /\ ev.out = "publish"
    /\ "__currentUser" \in DOMAIN ev.val /\ ev.val["__currentUser"] # CurrentUser
    /\ "__currentUser" \in DOMAIN ev.rel /\ ev.rel["__currentUser"] # CurrentUser
    /\ <<"__currentUser", "items">> \in ev.fetched

\* ---- C12
\* C12: while the primary key is the new-record sentinel '+', no pass awaits
\* or has been answered a baseline single-field read, and a one-to-many field
\* resolves from an empty baseline: the entities of its update list, then its
\* created entries.
C12_NewRecordNoBaseline ==
    pk = NewRecord =>
        /\ \A p \in passes : p.pc # "waitField"
        /\ fieldCache = EmptyObj
        /\ (ev.out = "publish" /\ "o" \in DOMAIN ev.val) =>
              /\ <<"o", "field">> \notin ev.fetched
              /\ Len(finalValues["o"].v) = Len(OChanges.update) + Len(OChanges.create)

\* ------------------------------------------ the matcher called on its own
MaxTokens == 5

\* what the probed templates are put together from
Tokens ==
    { <<"{", "{">>, <<"}", "}">>, <<"{">>, <<"\n">>, <<"a">>,
      <<"u", "s", "e", "r", "n", "a", "m", "e">> }

\* the field names asked for
Fields == { <<"a">>, <<"n", "a", "m", "e">>, <<"{">>, <<"}", "}">>, <<>> }

RECURSIVE Flatten(_)
Flatten(ts) == IF Len(ts) = 0 THEN <<>> ELSE ts[1] \o Flatten(Tail(ts))

ProbedTemplates == {Flatten(ts) : ts \in UNION {[1..n -> Tokens] : n \in 0..MaxTokens}}

\* the engine idle, no form mounted
Idle ==
    /\ values = EmptyObj
    /\ finalValues = InitialFinalValues
    /\ fieldCache = EmptyObj
    /\ itemCache = EmptyObj
    /\ passes = {}
    /\ nEdits = 0
    /\ nRejects = 0
    /\ ev = NoEvent("init", "skip", 0)
    /\ template = <<>>
    /\ pk = Num(7)
    /\ form = "none"

InitMatcher ==
    /\ Idle
    /\ \E T \in ProbedTemplates, f \in Fields :
          probe = [fn |-> "checkFieldInTemplate", template |-> T, field |-> f,
                   done |-> FALSE, out |-> FALSE]

\* checkFieldInTemplate(template, field) is called
CheckField ==
    /\ probe.fn = "checkFieldInTemplate" /\ ~probe.done
    /\ probe' = [probe EXCEPT !.done = TRUE,
                              !.out = checkFieldInTemplate(probe.template, probe.field)]
    /\ UNCHANGED <<values, finalValues, fieldCache, itemCache, passes, nEdits, nRejects, ev,
                   template, pk, form>>

SpecMatcher == InitMatcher /\ [][CheckField]_vars

\* ---- C13
\* T has {{ at i and }} at e, at least two places on, with neither a }} nor a
\* line terminator in between
ClosesAt(T, i, e) ==
    /\ i + 1 <= Len(T) /\ T[i] = "{" /\ T[i + 1] = "{"
    /\ e >= i + 2 /\ e + 1 <= Len(T) /\ T[e] = "}" /\ T[e + 1] = "}"
    /\ \A k \in (i + 2)..(e - 1) : T[k] \notin LineTerminators /\ ~(T[k] = "}" /\ T[k + 1] = "}")

\* the placeholder matches of T as pairs <<first, last>> of positions: a match
\* begins at every closable {{ that no earlier match covers
PlaceholderMatches(T) ==
    LET closable(i) == \E e \in 1..Len(T) : ClosesAt(T, i, e)
        last(i) == 1 + CHOOSE e \in 1..Len(T) : ClosesAt(T, i, e)
        begins[i \in 1..Len(T)] ==
            closable(i) /\ \A h \in 1..(i - 1) : begins[h] => last(h) < i
    IN {<<i, last(i)>> : i \in {h \in 1..Len(T) : begins[h]}}

\* C13: checkFieldInTemplate(T, f) is true exactly when f is a substring of a
\* placeholder match of T; 'name' is found in '{{username}}'; without a match
\* the answer is false for every f.
C13_SubstringOfMatch ==
    (probe.fn = "checkFieldInTemplate" /\ probe.done) =>
        LET T == probe.template
            f == probe.field
            ms == PlaceholderMatches(T)
        IN /\ probe.out <=> \E m \in ms : Includes(SubSeq(T, m[1], m[2]), f)
           /\ (T = Flatten(<< <<"{", "{">>, <<"u", "s", "e", "r", "n", "a", "m", "e">>, <<"}", "}">> >>)
               /\ f = <<"n", "a", "m", "e">>) => probe.out
           /\ ms = {} => ~probe.out

C13_Witness ==
    /\ probe.fn = "checkFieldInTemplate" /\ probe.done /\ probe.out
    /\ probe.field = <<"n", "a", "m", "e">>
    /\ Cardinality(PlaceholderMatches(probe.template)) = 2

\* --------------------------------------- findValueByPath called on its own
MaxPath == 3

\* a JS object whose property names are sequences of characters
Key(chars, v) == [k \in {chars} |-> v]

\* path.split('.'): the pieces between the dots, empty pieces included
RECURSIVE Split(_)
Split(path) ==
    IF \A x \in 1..Len(path) : path[x] # "." THEN <<path>>
    ELSE LET d == CHOOSE x \in 1..Len(path) : path[x] = "." /\ \A y \in 1..(x - 1) : path[y] # "."
         IN <<SubSeq(path, 1, d - 1)>> \o Split(SubSeq(path, d + 1, Len(path)))

\* i in value throws a TypeError unless value is an object
InThrows(value) == value.t \notin {"obj", "arr"}

\* lines 213-219 from segment k on; raised: the in operator of line 214 threw
RECURSIVE Walk(_, _, _)
Walk(value, segs, k) ==
    IF k > Len(segs) THEN [raised |-> FALSE, found |-> TRUE, value |-> value]
    ELSE IF InThrows(value) THEN [raised |-> TRUE, found |-> FALSE, value |-> Null]
    ELSE IF value.t = "obj" /\ segs[k] \in DOMAIN value.v THEN Walk(value.v[segs[k]], segs, k + 1)
    ELSE [raised |-> FALSE, found |-> FALSE, value |-> Null]

findValueByPath(obj, path) == Walk(obj, Split(path), 1)

ProbedObjects ==
    { Obj(<<>>),
      Obj(Key(<<"a">>, Obj(Key(<<"b">>, Num(1))))),
      Obj(Key(<<"a">>, Null)),
      Obj(Key(<<"a">>, Num(5))),
      Obj(Key(<<"a">>, Obj(Key(<<"b">>, Null)))) }

ProbedPaths == UNION {[1..n -> {"a", "b", "."}] : n \in 0..MaxPath}

InitPath ==
    /\ Idle
    /\ \E obj \in ProbedObjects, path \in ProbedPaths :
          probe = [fn |-> "findValueByPath", obj |-> obj, path |-> path, done |-> FALSE,
                   out |-> [raised |-> FALSE, found |-> FALSE, value |-> Null]]

\* findValueByPath(obj, path) is called
FindValue ==
    /\ probe.fn = "findValueByPath" /\ ~probe.done
    /\ probe' = [probe EXCEPT !.done = TRUE, !.out = findValueByPath(probe.obj, probe.path)]
    /\ UNCHANGED <<values, finalValues, fieldCache, itemCache, passes, nEdits, nRejects, ev,
                   template, pk, form>>

SpecPath == InitPath /\ [][FindValue]_vars

\* ---- C14
\* the value the first n segments lead to, undef where a segment is missing or
\* the value before it has no properties
RECURSIVE Leads(_, _, _)
Leads(obj, segs, n) ==
    IF n = 0 THEN obj
    ELSE LET v == Leads(obj, segs, n - 1) IN
         IF v.t = "obj" /\ segs[n] \in DOMAIN v.v THEN v.v[segs[n]] ELSE Undef

\* C14: findValueByPath never raises; it answers {value, found: true} when
\* every segment resolves and {value: null, found: false} otherwise, also when
\* a segment before the last resolves to null or to a value that is no object.
C14_NonFatal ==
    (probe.fn = "findValueByPath" /\ probe.done) =>
        LET segs == Split(probe.path)
            all == \A n \in 1..Len(segs) : Leads(probe.obj, segs, n) # Undef
        IN /\ ~probe.out.raised
           /\ probe.out.found <=> all
           /\ probe.out.found => probe.out.value = Leads(probe.obj, segs, Len(segs))
           /\ ~probe.out.found => probe.out.value = Null

\* ---- C15
\* the ids line 162 sees for the one-to-many field o of a persisted record
OIdsOf(val) ==
    LET ch == Changes(FALSE, RawChanges(val, "o"))
        updated == SeqToSet([x \in 1..Len(ch.update) |-> ch.update[x].id])
    IN SelectSeq(Baseline, LAMBDA id : id \notin updated /\ id \notin SeqToSet(ch.delete))
       \o [x \in 1..Len(ch.update) |-> ch.update[x].id]

\* the locals of the invocation the step ran, where it came to rest
Continuation == IF ev'.out = "publish" THEN ev' ELSE CHOOSE q \in passes' \ passes : TRUE

\* C15: a pass comes to wait for an entity read only with a non-empty id list
\* of which some id is not in ItemCache[C]; a field resolved without an entity
\* read found every id in ItemCache[C] and holds the cached entities in the
\* order of the id list; once a read is answered every id asked for is in
\* ItemCache[C] with the entity returned for it.
C15_ItemCacheRule ==
    [][ /\ \A p \in passes' \ passes :
              p.pc = "waitItems" =>
                  /\ Len(p.ids) > 0
                  /\ ~CacheHit(itemCache', RelatedCollection(RelAt(p)), p.ids)
        /\ (Publishes /\ "o" \in DOMAIN ev'.rel /\ PkFinal(ev'.val) # NewRecord
            /\ <<"o", "items">> \notin ev'.fetched) =>
              LET ids == OIdsOf(ev'.val)
                  ch == Changes(FALSE, RawChanges(ev'.val, "o"))
              IN /\ CacheHit(itemCache', "items", ids)
                 /\ SubSeq(ev'.rel["o"].v, 1, Len(ids)) =
                       [x \in 1..Len(ids) |-> MergeUpdate(itemCache'["items"][ids[x]], ch)]
        /\ \A p \in passes \ passes' :
              (ev'.kind = "items" /\ p.pc = "waitItems" /\ Continuation.reset = p.reset) =>
                  LET coll == RelatedCollection(RelAt(p)) IN
                  /\ coll \in DOMAIN itemCache'
                  /\ \A x \in 1..Len(p.ids) :
                        /\ p.ids[x] \in DOMAIN itemCache'[coll]
                        /\ itemCache'[coll][p.ids[x]] = Entity(coll, p.ids[x]) ]_vars

C15_Witness ==
    /\ ev.kind = "edit" /\ ev.out = "publish" /\ "o" \in DOMAIN ev.rel
    /\ ev.fetched = {} /\ Len(OIdsOf(ev.val)) = 3
    /\ Len(Changes(FALSE, RawChanges(ev.val, "o")).update) > 0
    /\ CacheHit(itemCache, "items", OIdsOf(ev.val))

\* ---- C16
\* what C16 asks of an invocation p that has gone through the many-to-one field a
PastARule(p) ==
    LET now == p.val["a"]
        before == Get(p.old, "a")
    IN /\ (IsScalar(now) /\ before.t = "obj") =>
             "a" \in p.reset /\ <<"a", "items">> \in p.fetched
       /\ (IsScalar(before) \/ before = Undef) => "a" \notin p.reset

PlaceOf(p, k) == CHOOSE x \in 1..Len(p.keys) : p.keys[x] = k

\* C17: a suspended pass waits for exactly one remote read, that of the key it
\* stands at; every template-referenced relational key before that key is
\* resolved, no key from it on is, and every read the pass was answered belongs
\* to a key up to that one; a pass moves on to a read only when the read it
\* waited for is answered, and the answer is then in the caches.
C17_OneFieldAtATime ==
    [][ /\ \A p \in passes' :
              /\ p.pc \in {"waitField", "waitItems"}
              /\ p.i \in 1..Len(p.keys) /\ Resolves(KeyAt(p))
              /\ \A x \in 1..Len(p.keys) :
                    IF x < p.i THEN Resolves(p.keys[x]) => p.keys[x] \in DOMAIN p.rel
                    ELSE p.keys[x] \notin DOMAIN p.rel
              /\ \A r \in p.fetched :
                    \/ PlaceOf(p, r[1]) < p.i
                    \/ PlaceOf(p, r[1]) = p.i /\ r[2] = "field" /\ p.pc = "waitItems"
              /\ \A q \in passes' : q.gen = p.gen => q = p
        /\ \A q \in passes' \ passes : \A p \in passes :
              p.gen = q.gen =>
                  /\ ev'.kind = (IF p.pc = "waitField" THEN "field" ELSE "items")
                  /\ p \notin passes'
                  /\ q.i > p.i \/ (q.i = p.i /\ p.pc = "waitField" /\ q.pc = "waitItems")
                  /\ q.fetched = p.fetched \cup {<<KeyAt(p), ev'.kind>>}
                  /\ q.reset = p.reset =>
                        IF p.pc = "waitField" THEN KeyAt(p) \in DOMAIN fieldCache'
                        ELSE CacheHit(itemCache', RelatedCollection(RelAt(p)), p.ids) ]_vars

C17_Witness ==
    \E p \in passes :
        /\ p.pc = "waitItems" /\ KeyAt(p) = "o"
        /\ "a" \in DOMAIN p.rel
        /\ p.fetched = {<<"a", "items">>, <<"o", "field">>}

\* ---- C18
\* every field the form can change, the computed one aside, is named by the
\* template: the trigger gate lets every invocation run
GateAlwaysOpen == \A k \in DOMAIN FormSet(form) \ {ComputedField} : InTemplate(template, k)

\* C18: once no pass is in flight and no read has failed, the ResolvedRecord
\* holds, under every key that is not resolved, the value of the most recent
\* edited record that passed the trigger gate (here: the current record).
C18_QuiescentConsistency ==
    (passes = {} /\ nRejects = 0 /\ GateAlwaysOpen) =>
        \A k \in DOMAIN values :
            ~Resolves(k) => k \in DOMAIN finalValues /\ finalValues[k] = Serialize(values)[k]

\* ---- C19
\* C19, for a baseline read: when a pass waits for its baseline read while a
\* pass started by a later edit has dropped the caches (a one-to-many reset
\* happens as the later pass starts, so the read of the earlier pass was issued
\* before it) and the caches are still empty, the answer to the earlier read is
\* not stored into FieldCache.
C19_NoStaleAfterReset ==
    [][ \A p \in passes : \A q \in passes :
          (/\ p.pc = "waitField" /\ p.i = 1
           /\ q.gen > p.gen /\ q.i = 1 /\ KeyAt(q) \in q.reset
           /\ fieldCache = EmptyObj
           /\ ev'.kind = "field" /\ p \notin passes')
          => fieldCache' = fieldCache ]_vars

\* ---- C20
\* C20: when the record of a pass holds null under a many-to-one key that the
\* template names, the pass reads no entity for the key, and the ResolvedRecord
\* it publishes has the key absent or null.
C20_EmptyManyToOne ==
    /\ (ev.out = "publish" /\ "a" \in DOMAIN ev.val /\ Resolves("a") /\ ev.val["a"] = Null) =>
          /\ <<"a", "items">> \notin ev.fetched
          /\ "a" \in DOMAIN finalValues => finalValues["a"] = Null
    /\ \A p \in passes :
          ("a" \in DOMAIN p.val /\ p.val["a"] = Null) => <<"a", "items">> \notin p.fetched

====
